---- MODULE Spec2Model ----
(***************************************************************************)
(* sveltekit-cloudflare-worker: export classification, entry synthesis,    *)
(* the generated fetch wrapper, the build patcher, the dev configuration   *)
(* customizer and the resolution of the adapter's bundle path.             *)
(*                                                                         *)
(* Two variants of the plugin source are modelled side by side:            *)
(*   "current" : src/src/lib/index.js   (bundler metafile + next())        *)
(*   "legacy"  : src/unnamed/part_001   (pattern scan, no next())          *)
(***************************************************************************)
EXTENDS Integers, Sequences, FiniteSets, TLC

VARIABLES
    variant,        \* "current" (src/lib/index.js) or "legacy" (part_001)
    pc,             \* position of the running hook / request
    source,         \* the user's worker module: sequence of export declarations
    exports,        \* Classification Record {handlers, classes}
    target,         \* "dev" (generated _dev-entry.ts) or "build" (patched bundle)
    served,         \* text of the module the runtime serves requests from
    req,            \* the request being handled
    ip,             \* index of the next statement of the fetch method body
    nextDefined,    \* the closure `next` exists in the running wrapper
    nextResponse,   \* _nextResponse: 0 = undefined, k = promise of k-th fallback call
    response,       \* what the user's handler resolved to
    calls,          \* invocations made so far, in order: <<callee, arguments>>
    nextCalls,      \* number of times the user's handler called next()
    result,         \* what the generated fetch method returned
    workerExists,   \* existsSync(workerPath): the user's worker file is there
    bundle,         \* text of the adapter's bundle file (workerDest), or NoFile
    userWorker,     \* text of _user-worker.js next to the bundle, or NoFile
    workerContent,  \* closeBundle's local: the bundle text it read
    runlog,         \* history: the closeBundle runs since the adapter last wrote
    config,         \* the provider's resolved configuration object (mutable)
    configIn,       \* history: that object as the customizer received it
    returned,       \* what the customizer returned to the provider
    resolved,       \* the configuration the provider goes on with
    devEntryPath,   \* cloudflareWorker's closure variable, '' until set
    devEntry,       \* text of .svelte-kit/cloudflare-worker/_dev-entry.ts, or NoFile
    wranglerFile,   \* the deploy-configuration file on disk
    workerDest      \* the path findWorkerDest returned

clsVars == <<source, exports>>
rtVars == <<target, served, req, ip, nextDefined, nextResponse, response,
            calls, nextCalls, result>>
fileVars == <<workerExists, bundle, userWorker, workerContent, runlog>>
cfgVars == <<config, configIn, returned, resolved, devEntryPath, devEntry,
             wranglerFile, workerDest>>
vars == <<variant, pc, source, exports, target, served, req, ip, nextDefined,
          nextResponse, response, calls, nextCalls, result,
          workerExists, bundle, userWorker, workerContent, runlog,
          config, configIn, returned, resolved, devEntryPath, devEntry,
          wranglerFile, workerDest>>

Variants == {"current", "legacy"}

----------------------------------------------------------------------------
(* Bounds *)

MaxDecls == 3       \* export declarations per worker module
MaxNextCalls == 3   \* calls of next() one handler run makes at most
MaxRuns == 2        \* runs of closeBundle on one adapter output

----------------------------------------------------------------------------
(* Generic helpers *)

Range(s) == {s[i] : i \in 1..Len(s)}

NoDup(s) == \A i, j \in 1..Len(s) : i # j => s[i] # s[j]

SeqsUpTo(S, n) == UNION {[1..k -> S] : k \in 0..n}

----------------------------------------------------------------------------
(* Export Classifier *)

\* index.js:4
KNOWN_HANDLERS ==
    <<"fetch", "scheduled", "queue", "email", "tail", "trace", "tailStream">>

\* part_001:5
KNOWN_HANDLERS_LEGACY ==
    <<"fetch", "scheduled", "queue", "email", "tail", "trace">>

\* Array.prototype.includes
includes(arr, x) == \E i \in 1..Len(arr) : arr[i] = x

\* A worker module is a sequence of top-level export declarations
\* <<kind, name>>.  "reexport" is `export { X } from './y'`,
\* "default" is `export default ...` (its export name is "default").
\* For the pattern scan, which reads text, every entry is a place where the
\* text reads `export <kind> <name>`: a name can occur at several places
\* (TypeScript overload signatures, commented-out code), which the bundler
\* either merges or rejects.
DeclKinds == {"class", "const", "asyncfunction", "reexport"}
ExportNames == {"fetch", "scheduled", "tailStream", "Foo", "helper"}
Decls == (DeclKinds \X ExportNames) \cup {<<"default", "default">>}

DeclName(d) == d[2]
DeclKind(d) == d[1]

\* esbuild rejects a module that exports one name twice.
WellFormed(src) == NoDup([i \in 1..Len(src) |-> DeclName(src[i])])

\* result.metafile.outputs[outputKey].exports : the export table of the
\* bundled module, every exported name (default included).
MetafileExports(src) == [i \in 1..Len(src) |-> DeclName(src[i])]

RECURSIVE classifyLoop(_, _, _)
classifyLoop(exportNames, i, acc) ==
    IF i > Len(exportNames) THEN acc
    ELSE LET name == exportNames[i] IN
         IF name = "default" THEN classifyLoop(exportNames, i + 1, acc)
         ELSE IF includes(KNOWN_HANDLERS, name)
         THEN classifyLoop(exportNames, i + 1,
                  [acc EXCEPT !.handlers = Append(@, name)])
         ELSE classifyLoop(exportNames, i + 1,
                  [acc EXCEPT !.classes = Append(@, name)])

EmptyRecord == [handlers |-> <<>>, classes |-> <<>>]

\* faulty variant: names outside KNOWN_HANDLERS are dropped
classifyExportsHandlersOnly(exportNames) ==
    [handlers |-> SelectSeq(exportNames, LAMBDA n : includes(KNOWN_HANDLERS, n)),
     classes |-> <<>>]

classifyExports(exportNames) == classifyLoop(exportNames, 1, EmptyRecord)

\* (\w+) at the start of a name: `$` is not a word character, so a name
\* beginning with it gives no match; the other names are words throughout.
wordMatch(name) == name # "$$"

\* /export\s+class\s+(\w+)/g
classRegexMatches(src) ==
    SelectSeq(src, LAMBDA d : DeclKind(d) = "class" /\ wordMatch(DeclName(d)))

\* /export\s+(?:const|let|var|(?:async\s+)?function)\s+(\w+)/g
fnRegexMatches(src) ==
    SelectSeq(src, LAMBDA d : DeclKind(d) \in {"const", "asyncfunction"}
                              /\ wordMatch(DeclName(d)))

parseExports(src) ==
    LET cm == classRegexMatches(src)
        fm == SelectSeq(fnRegexMatches(src),
                        LAMBDA d : includes(KNOWN_HANDLERS_LEGACY, DeclName(d)))
    IN [handlers |-> [i \in 1..Len(fm) |-> DeclName(fm[i])],
        classes  |-> [i \in 1..Len(cm) |-> DeclName(cm[i])]]

NoRecord == [handlers |-> <<"?">>, classes |-> <<"?">>]

----------------------------------------------------------------------------
(* Generated source text.  Text is a sequence of tokens <<kind, text>>;    *)
(* whitespace, punctuation, keywords and identifiers are separate tokens,   *)
(* opaque stretches of code are one "code" token.                           *)

kw(x) == <<"kw", x>>
ws(x) == <<"ws", x>>
pn(x) == <<"punct", x>>
id(x) == <<"id", x>>
str(x) == <<"str", x>>
code(x) == <<"code", x>>

SP == ws(" ")
NL == ws("\n")
IND == ws("  ")
IND2 == ws("    ")

\* Array.prototype.join on an array of token sequences
RECURSIVE join(_, _)
join(lines, sep) ==
    IF Len(lines) = 0 THEN <<>>
    ELSE IF Len(lines) = 1 THEN lines[1]
    ELSE lines[1] \o sep \o join(Tail(lines), sep)

\* faulty variant: the filter keeps fetch and drops the others
otherHandlersOfInverted(handlers) == SelectSeq(handlers, LAMBDA h : h = "fetch")

\* Array.prototype.filter((h) => h !== 'fetch')
otherHandlersOf(handlers) == SelectSeq(handlers, LAMBDA h : h # "fetch")

\* import path of the user's worker seen from the generated entry
\* (workerFile 'src/worker.ts' relative to .svelte-kit/cloudflare-worker)
DevImportPath == "../../src/worker"
UserWorkerPath == "./_user-worker.js"

\* `import * as __userWorker from '<path>';`
importLineOf(path) ==
    <<kw("import"), SP, pn("*"), SP, kw("as"), SP, id("__userWorker"), SP,
      kw("from"), SP, str(path), pn(";")>>

\* `export { <name> } from '<path>';`
reExportLine(name, path) ==
    <<kw("export"), SP, pn("{"), SP, id(name), SP, pn("}"), SP,
      kw("from"), SP, str(path), pn(";")>>

\* `  <handler>: __userWorker.<handler>`
passthroughEntry(handler) ==
    <<IND, id(handler), pn(":"), SP, id("__userWorker"), pn("."), id(handler)>>

\* faulty variant: the wrapper delegates before (and instead of) calling the handler
devFetchWrapperEager ==
    <<IND, kw("async"), SP, id("fetch"),
      code("(request: Request, env: any, ctx: ExecutionContext): Promise<Response>"),
      SP, pn("{"), NL,
      IND2, code("return env.ASSETS.fetch(request);"), NL,
      IND2, code("const response = await __userWorker.fetch(request, env, ctx, next);"), NL,
      IND, pn("}")>>

\* index.js:210-218
devFetchWrapper ==
    <<IND, kw("async"), SP, id("fetch"),
      code("(request: Request, env: any, ctx: ExecutionContext): Promise<Response>"),
      SP, pn("{"), NL,
      IND2, code("let _nextResponse: Promise<Response> | undefined;"), NL,
      IND2, code("const next = () => { _nextResponse = env.ASSETS.fetch(request); return _nextResponse; };"), NL,
      IND2, code("const response = await __userWorker.fetch(request, env, ctx, next);"), NL,
      IND2, code("if (response) return response;"), NL,
      IND2, code("return _nextResponse ?? next();"), NL,
      IND, pn("}")>>

\* index.js:220-224
devFetchDelegate ==
    <<IND, kw("async"), SP, id("fetch"),
      code("(request: Request, env: any, ctx: ExecutionContext): Promise<Response>"),
      SP, pn("{"), NL,
      IND2, code("return env.ASSETS.fetch(request);"), NL,
      IND, pn("}")>>

\* part_001:213-222
devFetchWrapperLegacy ==
    <<IND, kw("async"), SP, id("fetch"),
      code("(request: Request, env: any, ctx: ExecutionContext): Promise<Response>"),
      SP, pn("{"), NL,
      IND2, code("const response = await __userWorker.fetch(request, env, ctx);"), NL,
      IND2, code("if (response) return response;"), NL,
      IND2, code("// Fall through to SvelteKit via the ASSETS binding"), NL,
      IND2, code("return env.ASSETS.fetch(request);"), NL,
      IND, pn("}")>>

\* faulty variant: the build wrapper falls through without looking at _nextResponse
buildFetchWrapperNoMemo ==
    <<IND, kw("async"), SP, id("fetch"), code("(req, env, ctx)"), SP, pn("{"), NL,
      IND2, code("let _nextResponse;"), NL,
      IND2, code("const next = () => { _nextResponse = worker_default.fetch(req, env, ctx); return _nextResponse; };"), NL,
      IND2, code("const res = await __userWorker.fetch(req, env, ctx, next);"), NL,
      IND2, code("if (res) return res;"), NL,
      IND2, code("return worker_default.fetch(req, env, ctx);"), NL,
      IND, pn("}")>>

\* index.js:344-352
buildFetchWrapper ==
    <<IND, kw("async"), SP, id("fetch"), code("(req, env, ctx)"), SP, pn("{"), NL,
      IND2, code("let _nextResponse;"), NL,
      IND2, code("const next = () => { _nextResponse = worker_default.fetch(req, env, ctx); return _nextResponse; };"), NL,
      IND2, code("const res = await __userWorker.fetch(req, env, ctx, next);"), NL,
      IND2, code("if (res) return res;"), NL,
      IND2, code("return _nextResponse ?? next();"), NL,
      IND, pn("}")>>

\* part_001:289-295
buildFetchWrapperLegacy ==
    <<IND, kw("async"), SP, id("fetch"), code("(req, env, ctx)"), SP, pn("{"), NL,
      IND2, code("const res = await __userWorker.fetch(req, env, ctx);"), NL,
      IND2, code("if (res) return res;"), NL,
      IND2, code("return worker_default.fetch(req, env, ctx);"), NL,
      IND, pn("}")>>

\* `  fetch: worker_default.fetch`
buildFetchDelegate ==
    <<IND, id("fetch"), pn(":"), SP, id("worker_default"), pn("."), id("fetch")>>

exportDefaultOpen == <<kw("export"), SP, kw("default"), SP, pn("{")>>
exportDefaultClose == <<pn("}"), pn(";")>>

\* index.js generateDevEntry: the text written to _dev-entry.ts
generateDevEntryCurrent(exp) ==
    LET hasFetch == includes(exp.handlers, "fetch")
        otherHandlers == otherHandlersOf(exp.handlers)
        defaultEntries ==
            <<IF hasFetch THEN devFetchWrapper ELSE devFetchDelegate>>
            \o [i \in 1..Len(otherHandlers) |-> passthroughEntry(otherHandlers[i])]
        lines ==
            <<importLineOf(DevImportPath), <<>> >>
            \o [i \in 1..Len(exp.classes) |-> reExportLine(exp.classes[i], DevImportPath)]
            \o (IF Len(exp.classes) > 0 THEN << <<>> >> ELSE <<>>)
            \o <<exportDefaultOpen,
                 join(defaultEntries, <<pn(","), NL>>),
                 exportDefaultClose,
                 <<>> >>
    IN join(lines, <<NL>>)

\* part_001 generateDevEntry
generateDevEntryLegacy(exp) ==
    LET hasFetch == includes(exp.handlers, "fetch")
        otherHandlers == otherHandlersOf(exp.handlers)
        lines ==
            <<importLineOf(DevImportPath), <<>> >>
            \o [i \in 1..Len(exp.classes) |-> reExportLine(exp.classes[i], DevImportPath)]
            \o (IF Len(exp.classes) > 0 THEN << <<>> >> ELSE <<>>)
            \o [i \in 1..Len(otherHandlers) |-> reExportLine(otherHandlers[i], DevImportPath)]
            \o (IF Len(otherHandlers) > 0 THEN << <<>> >> ELSE <<>>)
            \o <<exportDefaultOpen,
                 IF hasFetch THEN devFetchWrapperLegacy ELSE devFetchDelegate,
                 exportDefaultClose,
                 <<>> >>
    IN join(lines, <<NL>>)

generateDevEntry(v, exp) ==
    IF v = "current" THEN generateDevEntryCurrent(exp)
    ELSE generateDevEntryLegacy(exp)

\* faulty variant: the fetch wrapper is emitted whether or not fetch is classified
buildExportBlockAlwaysWraps(v, exp) ==
    LET otherHandlers == otherHandlersOf(exp.handlers)
        defaultEntries ==
            <<IF v = "current" THEN buildFetchWrapper ELSE buildFetchWrapperLegacy>>
            \o [i \in 1..Len(otherHandlers) |-> passthroughEntry(otherHandlers[i])]
        lines ==
            [i \in 1..Len(exp.classes) |-> reExportLine(exp.classes[i], UserWorkerPath)]
            \o << exportDefaultOpen \o <<NL>>
                  \o join(defaultEntries, <<pn(","), NL>>)
                  \o <<NL>> \o exportDefaultClose >>
    IN join(lines, <<NL>>) \o <<NL>>

\* buildExportBlock (index.js:331-364, part_001:276-307): they differ only
\* in the fetch wrapper.
buildExportBlock(v, exp) ==
    LET hasFetch == includes(exp.handlers, "fetch")
        otherHandlers == otherHandlersOf(exp.handlers)
        defaultEntries ==
            <<IF hasFetch
              THEN (IF v = "current" THEN buildFetchWrapper
                    ELSE buildFetchWrapperLegacy)
              ELSE buildFetchDelegate>>
            \o [i \in 1..Len(otherHandlers) |-> passthroughEntry(otherHandlers[i])]
        lines ==
            [i \in 1..Len(exp.classes) |-> reExportLine(exp.classes[i], UserWorkerPath)]
            \o << exportDefaultOpen \o <<NL>>
                  \o join(defaultEntries, <<pn(","), NL>>)
                  \o <<NL>> \o exportDefaultClose >>
    IN join(lines, <<NL>>) \o <<NL>>

----------------------------------------------------------------------------
(* The build patcher's text operations *)

isWs(t) == t[1] = "ws"

\* \s* : index of the first token at or after i that is not whitespace
RECURSIVE skipWs(_, _)
skipWs(text, i) ==
    IF i > Len(text) THEN i
    ELSE IF isWs(text[i]) THEN skipWs(text, i + 1)
    ELSE i

tokAt(text, i) == IF i \in 1..Len(text) THEN text[i] ELSE <<"eof", "">>

\* /export\s*\{\s*worker_default\s+as\s+default\s*\}\s*;?\s*$/ matched with
\* its first token at index i.  No m flag: $ is the end of the whole text.
exportPatternAt(text, i) ==
    LET j1 == skipWs(text, i + 1)       \* {
        j2 == skipWs(text, j1 + 1)      \* worker_default
        j3 == skipWs(text, j2 + 1)      \* as
        j4 == skipWs(text, j3 + 1)      \* default
        j5 == skipWs(text, j4 + 1)      \* }
        j6 == skipWs(text, j5 + 1)      \* ;?
        j7 == IF tokAt(text, j6) = pn(";") THEN j6 + 1 ELSE j6
        j8 == skipWs(text, j7)
    IN /\ tokAt(text, i) = kw("export")
       /\ tokAt(text, j1) = pn("{")
       /\ tokAt(text, j2) = id("worker_default")
       /\ j3 > j2 + 1
       /\ tokAt(text, j3) = kw("as")
       /\ j4 > j3 + 1
       /\ tokAt(text, j4) = kw("default")
       /\ tokAt(text, j5) = pn("}")
       /\ j8 = Len(text) + 1

\* index of the leftmost match, 0 when there is none
exportPatternIndex(text) ==
    IF \E i \in 1..Len(text) : exportPatternAt(text, i)
    THEN CHOOSE i \in 1..Len(text) :
            /\ exportPatternAt(text, i)
            /\ \A j \in 1..(i - 1) : ~exportPatternAt(text, j)
    ELSE 0

\* faulty variant: the guard is gone, every bundle passes
exportPatternTestAlways(text) == TRUE

\* faulty variant: the guard only looks for an export statement
exportPatternTestLoose(text) == \E i \in 1..Len(text) : text[i] = kw("export")

\* exportPattern.test(workerContent)
exportPatternTest(text) == exportPatternIndex(text) # 0

\* String.prototype.replace with a string replacement expands $$ to $ in
\* the replacement (the other $-patterns need a character that cannot be
\* part of an identifier).
dollarExpand(t) ==
    IF t = id("$$") THEN id("$") ELSE t

\* workerContent.replace(exportPattern, exportBlock)
replaceExportPattern(text, block) ==
    LET i == exportPatternIndex(text) IN
    IF i = 0 THEN text
    ELSE SubSeq(text, 1, i - 1) \o [k \in 1..Len(block) |-> dollarExpand(block[k])]

\* `import * as __userWorker from './_user-worker.js';\n`
importLine == importLineOf(UserWorkerPath) \o <<NL>>

\* importLine + workerContent.replace(exportPattern, exportBlock)
patchedText(v, content, exp) ==
    importLine \o replaceExportPattern(content, buildExportBlock(v, exp))

\* What @sveltejs/adapter-cloudflare emits: its code, then
\* `export { worker_default as default };`
adapterCode == code("var worker_default = { async fetch(req, env, ctx) { /* SvelteKit */ } };")

defaultExportStmt(internalName) ==
    <<kw("export"), SP, pn("{"), SP, id(internalName), SP, kw("as"), SP,
      kw("default"), SP, pn("}")>>

AdapterBundle == <<adapterCode, NL>> \o defaultExportStmt("worker_default") \o <<pn(";"), NL>>

----------------------------------------------------------------------------
(* Files of a build *)

NoFile == << <<"nofile", "">> >>

FilesIdle ==
    /\ workerExists = TRUE
    /\ bundle = NoFile
    /\ userWorker = NoFile
    /\ workerContent = <<>>
    /\ runlog = <<>>

\* result.outputFiles[0].text / esbuild's outfile: the bundled worker module
userWorkerBundle(src) ==
    <<code("// src/worker.ts, bundled")>> \o [i \in 1..Len(src) |-> id(DeclName(src[i]))]

----------------------------------------------------------------------------
(* Configuration objects.  A JavaScript value that may be undefined is a    *)
(* record with a `defined` flag; booleans and strings are written as        *)
(* strings, "undefined" standing for a missing property.                    *)

MaxFlags == 3       \* entries of compatibility_flags
MaxBindings == 2    \* entries of durable_objects.bindings

Undefined == "undefined"
UndefinedList == [defined |-> FALSE, items |-> <<>>]
List(s) == [defined |-> TRUE, items |-> s]

NoAssets == [defined |-> FALSE, binding |-> Undefined, run_worker_first |-> Undefined]

Flags == {"nodejs_compat", "nodejs_als"}
ScriptNames == {Undefined, "worker-svelte-kit"}

\* one entry of durable_objects.bindings
Binding(s) == [name |-> "MY_DO", class_name |-> "MyDurableObject", script_name |-> s]

Migrations == <<"v1", "v2">>

\* Configurations the provider can hand to the customizer.
Configs ==
    [name : {"my-app"},
     main : {Undefined, "src/index.ts"},
     assets : {NoAssets} \cup
              [defined : {TRUE}, binding : {Undefined, "", "MY_ASSETS"},
               run_worker_first : {Undefined, "true", "false"}],
     compatibility_flags : {UndefinedList} \cup {List(s) : s \in SeqsUpTo(Flags, MaxFlags)},
     durable_objects : {UndefinedList} \cup
                       {List([i \in 1..Len(s) |-> Binding(s[i])]) :
                            s \in SeqsUpTo(ScriptNames, MaxBindings)},
     migrations : {List(Migrations)}]

NoConfig ==
    [name |-> "", main |-> Undefined, assets |-> NoAssets,
     compatibility_flags |-> UndefinedList, durable_objects |-> UndefinedList,
     migrations |-> UndefinedList]

\* the customizer has no return statement
NoReturn == [defined |-> FALSE, value |-> NoConfig]

\* Deploy-configuration files: where the file is (path "none": there is
\* none), how its text is written (syntax), a header comment, and its
\* properties name, main and durable_objects.bindings.
\*   syntax "plain"          : no comments
\*          "lineComments"   : comments on lines of their own
\*          "inlineComments" : comments after a value on the same line
\*          "broken"         : not valid in the file's format
\*          "unreadable"     : reading the file fails
WranglerFiles ==
    {[path |-> "wrangler.jsonc", syntax |-> "lineComments", main |-> Undefined,
      comment |-> "// deploy configuration", name |-> "my-app", bindings |-> b] :
        b \in {UndefinedList, List(<<Binding(Undefined)>>),
                List(<<Binding("worker-svelte-kit")>>)}}

NoWranglerFile ==
    [path |-> "none", syntax |-> "plain", main |-> Undefined,
     comment |-> "", name |-> "", bindings |-> UndefinedList]

\* a path is <<directory it is resolved against, path>>
NoDest == <<"", "">>

CfgIdle ==
    /\ config = NoConfig
    /\ configIn = NoConfig
    /\ returned = NoReturn
    /\ resolved = NoConfig
    /\ devEntryPath = ""
    /\ devEntry = NoFile
    /\ wranglerFile = NoWranglerFile
    /\ workerDest = NoDest

\* `!config.assets.binding`: undefined and the empty string are falsy
falsy(v) == v = Undefined \/ v = ""

\* faulty variant: run_worker_first is only filled in where it is missing
withAssetsKeepsFlag(a) ==
    IF ~a.defined
    THEN [defined |-> TRUE, binding |-> "ASSETS", run_worker_first |-> "true"]
    ELSE [a EXCEPT !.binding = IF falsy(@) THEN "ASSETS" ELSE @,
                   !.run_worker_first = IF @ = Undefined THEN "true" ELSE @]

\* the customizer's assets branch: a fresh object when there is none,
\* else binding filled if falsy and run_worker_first overwritten
withAssets(a) ==
    IF ~a.defined
    THEN [defined |-> TRUE, binding |-> "ASSETS", run_worker_first |-> "true"]
    ELSE [a EXCEPT !.binding = IF falsy(@) THEN "ASSETS" ELSE @,
                   !.run_worker_first = "true"]

RECURSIVE setOf(_, _, _)
\* new Set(list): insertion order, an element already present is not added
setOf(s, i, acc) ==
    IF i > Len(s) THEN acc
    ELSE setOf(s, i + 1, IF includes(acc, s[i]) THEN acc ELSE Append(acc, s[i]))

\* faulty variant: of equal flags the last occurrence is kept
dedupeKeepsLast(s) ==
    LET keep == {i \in 1..Len(s) : \A j \in (i + 1)..Len(s) : s[j] # s[i]}
        F[i \in 0..Len(s)] ==
            IF i = 0 THEN <<>>
            ELSE IF i \in keep THEN Append(F[i - 1], s[i]) ELSE F[i - 1]
    IN F[Len(s)]

\* [...new Set(config.compatibility_flags)]
dedupe(s) == setOf(s, 1, <<>>)

\* for (const binding of bindings) delete binding.script_name
stripScriptName(bs) == [i \in 1..Len(bs) |-> [bs[i] EXCEPT !.script_name = Undefined]]

\* The body of the customizer: the configuration object after it ran,
\* given the closure variable devEntryPath.
configCustomizer(v, cfg, dep) ==
    LET c1 == IF dep # "" THEN [cfg EXCEPT !.main = dep] ELSE cfg
        c2 == [c1 EXCEPT !.assets = withAssets(@)]
        c3 == [c2 EXCEPT !.compatibility_flags =
                   IF @.defined THEN List(dedupe(@.items)) ELSE @]
    IN IF v = "legacy"
       THEN [c3 EXCEPT !.durable_objects =
                IF @.defined THEN List(stripScriptName(@.items)) ELSE @]
       ELSE c3

\* faulty variant: the customizer ends with `return config`
customizerReturnsConfig(cfg) == [defined |-> TRUE, value |-> cfg]

\* the customizer's return value: there is no return statement
customizerReturns(cfg) == NoReturn

\* defu(a, b): properties of a win, list-valued properties are concatenated
defuList(a, b) ==
    IF a.defined /\ b.defined THEN List(a.items \o b.items)
    ELSE IF a.defined THEN a ELSE b

defu(a, b) ==
    [name |-> a.name,
     main |-> IF a.main # Undefined THEN a.main ELSE b.main,
     assets |-> IF a.assets.defined THEN a.assets ELSE b.assets,
     compatibility_flags |-> defuList(a.compatibility_flags, b.compatibility_flags),
     durable_objects |-> defuList(a.durable_objects, b.durable_objects),
     migrations |-> defuList(a.migrations, b.migrations)]

\* What the provider goes on with: the object it passed in, merged with
\* the customizer's return value when there is one.
providerResolves(ret, cfg) ==
    IF ret.defined THEN defu(ret.value, cfg) ELSE cfg

----------------------------------------------------------------------------
(* The generated fetch method at run time.  The method body is read off    *)
(* the served text and executed statement by statement.                     *)

Targets == {"dev", "build"}
Requests == {"rq1", "rq2"}

NoRequest == "none"
Void == <<"void", 0>>           \* the handler resolved to undefined
OwnResponse == <<"own", 1>>     \* a Response the handler built itself
NoResult == <<"pending", 0>>
Thrown == <<"throw", 0>>
FallbackResponse(k) == <<"fb", k>>   \* the response of the k-th fallback call

RtIdle ==
    /\ target = "dev"
    /\ served = <<>>
    /\ req = NoRequest
    /\ ip = 0
    /\ nextDefined = FALSE
    /\ nextResponse = 0
    /\ response = Void
    /\ calls = <<>>
    /\ nextCalls = 0
    /\ result = NoResult

\* `fetch: worker_default.fetch` : the method is the adapter's handler itself
boundDelegate == code("fetch: worker_default.fetch")

hasDelegateBinding(text) ==
    \E i \in 1..(Len(text) - 5) :
        /\ text[i] = id("fetch")
        /\ text[i + 1] = pn(":")
        /\ text[i + 3] = id("worker_default")
        /\ text[i + 4] = pn(".")
        /\ text[i + 5] = id("fetch")

\* What each statement the generators emit does.
\*   op: let | defnext | calluser | retif | retmemo | retfallback | bound
\*   fb: the fallback target the statement names
\*   withNext: the user's handler is handed `next`
Meaning(t) ==
    CASE t = code("let _nextResponse: Promise<Response> | undefined;")
           -> [op |-> "let", fb |-> "", withNext |-> FALSE]
      [] t = code("let _nextResponse;")
           -> [op |-> "let", fb |-> "", withNext |-> FALSE]
      [] t = code("const next = () => { _nextResponse = env.ASSETS.fetch(request); return _nextResponse; };")
           -> [op |-> "defnext", fb |-> "env.ASSETS.fetch", withNext |-> FALSE]
      [] t = code("const next = () => { _nextResponse = worker_default.fetch(req, env, ctx); return _nextResponse; };")
           -> [op |-> "defnext", fb |-> "worker_default.fetch", withNext |-> FALSE]
      [] t = code("const response = await __userWorker.fetch(request, env, ctx, next);")
           -> [op |-> "calluser", fb |-> "", withNext |-> TRUE]
      [] t = code("const res = await __userWorker.fetch(req, env, ctx, next);")
           -> [op |-> "calluser", fb |-> "", withNext |-> TRUE]
      [] t = code("const response = await __userWorker.fetch(request, env, ctx);")
           -> [op |-> "calluser", fb |-> "", withNext |-> FALSE]
      [] t = code("const res = await __userWorker.fetch(req, env, ctx);")
           -> [op |-> "calluser", fb |-> "", withNext |-> FALSE]
      [] t = code("if (response) return response;")
           -> [op |-> "retif", fb |-> "", withNext |-> FALSE]
      [] t = code("if (res) return res;")
           -> [op |-> "retif", fb |-> "", withNext |-> FALSE]
      [] t = code("return _nextResponse ?? next();")
           -> [op |-> "retmemo", fb |-> "", withNext |-> FALSE]
      [] t = code("return env.ASSETS.fetch(request);")
           -> [op |-> "retfallback", fb |-> "env.ASSETS.fetch", withNext |-> FALSE]
      [] t = code("return worker_default.fetch(req, env, ctx);")
           -> [op |-> "retfallback", fb |-> "worker_default.fetch", withNext |-> FALSE]
      [] t = boundDelegate
           -> [op |-> "retfallback", fb |-> "worker_default.fetch", withNext |-> FALSE]
      [] OTHER -> [op |-> "skip", fb |-> "", withNext |-> FALSE]

\* The statements of the default export's fetch method, in order.
\* An unpatched adapter bundle (`export { worker_default as default }`) and a
\* block with `fetch: worker_default.fetch` both serve with the adapter's own
\* fetch.
fetchBody(text) ==
    LET stmts == SelectSeq(text, LAMBDA t : t[1] = "code" /\ Meaning(t).op # "skip")
    IN IF hasDelegateBinding(text) \/ exportPatternTest(text)
       THEN <<boundDelegate>> ELSE stmts

\* The arguments a fallback target is called with.
fallbackArgs(fb, r) ==
    IF fb = "env.ASSETS.fetch" THEN <<r>> ELSE <<r, "env", "ctx">>

\* The fallback target `next` closes over (the defnext statement of the body).
nextTarget(text) ==
    LET b == fetchBody(text)
        i == CHOOSE j \in 1..Len(b) : Meaning(b[j]).op = "defnext"
    IN Meaning(b[i]).fb

fallbackCount(cs) == Cardinality({i \in 1..Len(cs) : cs[i][1] # "__userWorker.fetch"})
userCount(cs) == Cardinality({i \in 1..Len(cs) : cs[i][1] = "__userWorker.fetch"})

\* One invocation of the fallback target: it is logged and returns the
\* promise of its own response.
invokeFallback(cs, fb, r) ==
    [calls |-> Append(cs, <<fb, fallbackArgs(fb, r)>>),
     promise |-> fallbackCount(cs) + 1]

\* `next = () => { _nextResponse = FALLBACK(...); return _nextResponse; }`
next(cs, fb, r) ==
    LET inv == invokeFallback(cs, fb, r)
    IN [calls |-> inv.calls, nextResponse |-> inv.promise, ret |-> inv.promise]

\* faulty variant: the wrapper ignores _nextResponse and always calls next()
memoOrNextAlwaysCalls(nr, cs, fb, r) == next(cs, fb, r)

\* `_nextResponse ?? next()`
memoOrNext(nr, cs, fb, r) ==
    IF nr # 0 THEN [calls |-> cs, nextResponse |-> nr, ret |-> nr]
    ELSE next(cs, fb, r)

\* faulty variant: the wrapper drops the handler's response
truthyNever(resp) == FALSE

\* `if (res) return res;` : a Response object is truthy, undefined is not
truthy(resp) == resp # Void

CurStmt == Meaning(fetchBody(served)[ip])
Running == pc = "run" /\ ip \in 1..Len(fetchBody(served))

\* The runtime calls the default export's fetch with a request.
Request(r) ==
    /\ pc = "ready"
    /\ req' = r
    /\ ip' = 1
    /\ nextDefined' = FALSE
    /\ nextResponse' = 0
    /\ response' = Void
    /\ calls' = <<>>
    /\ nextCalls' = 0
    /\ result' = NoResult
    /\ pc' = "run"
    /\ UNCHANGED <<cfgVars, fileVars, variant, clsVars, target, served>>

\* `let _nextResponse;`
ExecLet ==
    /\ Running /\ CurStmt.op = "let"
    /\ nextResponse' = 0
    /\ ip' = ip + 1
    /\ UNCHANGED <<cfgVars, fileVars, variant, pc, clsVars, target, served, req, nextDefined,
                   response, calls, nextCalls, result>>

\* `const next = () => {...};`
ExecDefNext ==
    /\ Running /\ CurStmt.op = "defnext"
    /\ nextDefined' = TRUE
    /\ ip' = ip + 1
    /\ UNCHANGED <<cfgVars, fileVars, variant, pc, clsVars, target, served, req, nextResponse,
                   response, calls, nextCalls, result>>

\* `const res = await __userWorker.fetch(req, env, ctx[, next]);` : the call
ExecCallUser ==
    /\ Running /\ CurStmt.op = "calluser"
    /\ calls' = Append(calls,
           <<"__userWorker.fetch",
             IF CurStmt.withNext THEN <<req, "env", "ctx", "next">>
             ELSE <<req, "env", "ctx">> >>)
    /\ pc' = "user"
    /\ UNCHANGED <<cfgVars, fileVars, variant, clsVars, target, served, req, ip, nextDefined,
                   nextResponse, response, nextCalls, result>>

\* The user's handler calls the `next` it was handed.
UserCallsNext ==
    /\ pc = "user"
    /\ CurStmt.withNext /\ nextDefined
    /\ nextCalls < MaxNextCalls
    /\ LET n == next(calls, nextTarget(served), req) IN
        /\ calls' = n.calls
        /\ nextResponse' = n.nextResponse
    /\ nextCalls' = nextCalls + 1
    /\ UNCHANGED <<cfgVars, fileVars, variant, pc, clsVars, target, served, req, ip, nextDefined,
                   response, result>>

\* The user's handler resolves: to undefined, to a Response of its own, or
\* to a response it got from next().  The await completes.
UserReturns(v) ==
    /\ pc = "user"
    /\ v \in {Void, OwnResponse}
             \cup {FallbackResponse(k) : k \in 1..fallbackCount(calls)}
    /\ response' = v
    /\ ip' = ip + 1
    /\ pc' = "run"
    /\ UNCHANGED <<cfgVars, fileVars, variant, clsVars, target, served, req, nextDefined,
                   nextResponse, calls, nextCalls, result>>

\* The user's handler throws / rejects: the await rethrows out of the method.
UserThrows ==
    /\ pc = "user"
    /\ result' = Thrown
    /\ pc' = "done"
    /\ UNCHANGED <<cfgVars, fileVars, variant, clsVars, target, served, req, ip, nextDefined,
                   nextResponse, response, calls, nextCalls>>

\* `if (res) return res;`
ExecReturnIfResponse ==
    /\ Running /\ CurStmt.op = "retif"
    /\ IF truthy(response)
       THEN result' = response /\ pc' = "done" /\ ip' = ip
       ELSE result' = result /\ pc' = pc /\ ip' = ip + 1
    /\ UNCHANGED <<cfgVars, fileVars, variant, clsVars, target, served, req, nextDefined,
                   nextResponse, response, calls, nextCalls>>

\* `return _nextResponse ?? next();`
ExecFallThrough ==
    /\ Running /\ CurStmt.op = "retmemo"
    /\ LET m == memoOrNext(nextResponse, calls, nextTarget(served), req) IN
        /\ calls' = m.calls
        /\ nextResponse' = m.nextResponse
        /\ result' = FallbackResponse(m.ret)
    /\ pc' = "done"
    /\ UNCHANGED <<cfgVars, fileVars, variant, clsVars, target, served, req, ip, nextDefined,
                   response, nextCalls>>

\* `return env.ASSETS.fetch(request);`, `return worker_default.fetch(req, env, ctx);`
\* and the bound `fetch: worker_default.fetch`
ExecDelegate ==
    /\ Running /\ CurStmt.op = "retfallback"
    /\ LET inv == invokeFallback(calls, CurStmt.fb, req) IN
        /\ calls' = inv.calls
        /\ result' = FallbackResponse(inv.promise)
    /\ pc' = "done"
    /\ UNCHANGED <<cfgVars, fileVars, variant, clsVars, target, served, req, ip, nextDefined,
                   nextResponse, response, nextCalls>>

\* The request is over; the runtime is ready for the next one.
Finish ==
    /\ pc = "done"
    /\ pc' = "ready"
    /\ UNCHANGED <<cfgVars, fileVars, variant, clsVars, rtVars>>

----------------------------------------------------------------------------
(* Specification of the served module: a worker module is classified, the   *)
(* entry is synthesized (dev) or the adapter bundle is patched (build), and *)
(* the runtime then serves requests from the result.                        *)

\* The classification each variant computes for a worker module.
classify(v, src) ==
    IF v = "current" THEN classifyExports(MetafileExports(src))
    ELSE parseExports(src)

ServedDecls == {<<"const", "fetch">>, <<"const", "scheduled">>, <<"class", "Foo">>}
MaxServedDecls == 2

InitFetch ==
    /\ variant \in Variants
    /\ pc = "start"
    /\ source \in {src \in SeqsUpTo(ServedDecls, MaxServedDecls) : WellFormed(src)}
    /\ exports = NoRecord
    /\ target \in Targets
    /\ served = <<>>
    /\ req = NoRequest
    /\ ip = 0
    /\ nextDefined = FALSE
    /\ nextResponse = 0
    /\ response = Void
    /\ calls = <<>>
    /\ nextCalls = 0
    /\ result = NoResult
    /\ FilesIdle
    /\ CfgIdle

\* dev: devSetupPlugin.config writes the dev entry, which the runtime loads.
SynthesizeDev ==
    /\ pc = "start" /\ target = "dev"
    /\ exports' = classify(variant, source)
    /\ served' = generateDevEntry(variant, exports')
    /\ pc' = "ready"
    /\ UNCHANGED <<cfgVars, fileVars, variant, source, target, req, ip, nextDefined, nextResponse,
                   response, calls, nextCalls, result>>

\* build: closeBundle patches the adapter's bundle, which is then deployed.
\* A worker module with no exports leaves the adapter's bundle as it is.
SynthesizeBuild ==
    /\ pc = "start" /\ target = "build"
    /\ exports' = classify(variant, source)
    /\ served' = IF Len(exports'.classes) = 0 /\ Len(exports'.handlers) = 0
                 THEN AdapterBundle
                 ELSE patchedText(variant, AdapterBundle, exports')
    /\ pc' = "ready"
    /\ UNCHANGED <<cfgVars, fileVars, variant, source, target, req, ip, nextDefined, nextResponse,
                   response, calls, nextCalls, result>>

NextFetch ==
    \/ SynthesizeDev
    \/ SynthesizeBuild
    \/ \E r \in Requests : Request(r)
    \/ ExecLet
    \/ ExecDefNext
    \/ ExecCallUser
    \/ UserCallsNext
    \/ \E v \in {Void, OwnResponse} \cup {FallbackResponse(k) : k \in 1..MaxNextCalls} :
          UserReturns(v)
    \/ UserThrows
    \/ ExecReturnIfResponse
    \/ ExecFallThrough
    \/ ExecDelegate
    \/ Finish

SpecFetch == InitFetch /\ [][NextFetch]_vars

----------------------------------------------------------------------------
(* Properties of the served fetch method (SpecFetch) *)

FetchClassified == pc # "start" /\ includes(exports.handlers, "fetch")
FetchNotClassified == pc # "start" /\ ~includes(exports.handlers, "fetch")

UserCall(r, withNext) ==
    <<"__userWorker.fetch",
      IF withNext THEN <<r, "env", "ctx", "next">> ELSE <<r, "env", "ctx">> >>

FallbackOf(t) == IF t = "dev" THEN "env.ASSETS.fetch" ELSE "worker_default.fetch"

\* C1: a handler that calls next() two or more times during one request
\* causes exactly one invocation of the fallback target.
C1_NextMemoized ==
    (pc = "done" /\ FetchClassified /\ nextCalls >= 2)
        => fallbackCount(calls) = 1

\* C2: when the handler resolves to a concrete response the wrapper returns
\* exactly that response, and if the handler did not call next() the
\* fallback target is not invoked at all.
C2_ConcreteResponseReturned ==
    (pc = "done" /\ FetchClassified /\ result # Thrown /\ response # Void)
        => /\ result = response
           /\ (nextCalls = 0 => fallbackCount(calls) = 0)

C2_Witness ==
    /\ pc = "done" /\ FetchClassified
    /\ response = OwnResponse /\ result = OwnResponse
    /\ nextCalls = 0 /\ fallbackCount(calls) = 0

\* C3: when the handler resolves to an empty value having called next() at
\* most once, the fallback target is invoked exactly once in total and the
\* wrapper returns the response of that invocation.
C3_FallThroughOnce ==
    (pc = "done" /\ FetchClassified /\ result # Thrown /\ response = Void
     /\ nextCalls <= 1)
        => /\ fallbackCount(calls) = 1
           /\ result = FallbackResponse(1)
           /\ calls[Len(calls)][1] = FallbackOf(target)

C3_Witness ==
    /\ pc = "done" /\ FetchClassified /\ variant = "current"
    /\ response = Void /\ nextCalls = 1
    /\ fallbackCount(calls) = 1 /\ result = FallbackResponse(1)

\* C4: when fetch is classified the user's handler is invoked exactly once
\* per request, with the request and the environment bindings, and it is the
\* first invocation of the request: no fallback delegation precedes it.
C4_HandlerFirstAndOnce ==
    (FetchClassified /\ pc \in {"run", "user", "done"})
        => /\ userCount(calls) <= 1
           /\ (pc \in {"user", "done"} => userCount(calls) = 1)
           /\ (calls # <<>> =>
                 /\ calls[1][1] = "__userWorker.fetch"
                 /\ calls[1][2][1] = req
                 /\ calls[1][2][2] = "env")

C4_Witness ==
    /\ pc = "done" /\ FetchClassified
    /\ Len(calls) >= 2
    /\ calls[1] = UserCall(req, variant = "current")
    /\ calls[2][1] = FallbackOf(target)

\* a reference to the user module's fetch export in a text
refsUserFetch(text) ==
    \E i \in 1..Len(text) :
        \/ text[i][1] = "code" /\ Meaning(text[i]).op = "calluser"
        \/ /\ text[i] = id("__userWorker")
           /\ tokAt(text, i + 1) = pn(".")
           /\ tokAt(text, i + 2) = id("fetch")

\* C10: when fetch is not classified, the generated fetch method hands every
\* request straight to the fallback target and the generated text has no
\* reference to a fetch export of the user module.
C10_UnclassifiedFetchDelegates ==
    FetchNotClassified
        => /\ ~refsUserFetch(served)
           /\ (pc = "done" =>
                 /\ calls = << <<FallbackOf(target),
                                 fallbackArgs(FallbackOf(target), req)>> >>
                 /\ result = FallbackResponse(1))

C10_Witness ==
    /\ pc = "done" /\ FetchNotClassified /\ target = "build"
    /\ exports.handlers = <<"scheduled">>
    /\ calls = << <<"worker_default.fetch", <<req, "env", "ctx">> >> >>

----------------------------------------------------------------------------
(* Specification of the classifier alone: any worker module, either         *)
(* strategy.                                                                *)

InitClassify ==
    /\ variant \in Variants
    /\ pc = "start"
    /\ source \in SeqsUpTo(Decls, MaxDecls)
    /\ exports = NoRecord
    /\ RtIdle
    /\ FilesIdle
    /\ CfgIdle

\* index.js detectExports: bundle, then classify the metafile's export table.
detectExports ==
    /\ pc = "start"
    /\ variant = "current"
    /\ WellFormed(source)
    /\ exports' = classifyExports(MetafileExports(source))
    /\ pc' = "classified"
    /\ UNCHANGED <<cfgVars, fileVars, variant, source, rtVars>>

\* index.js detectExports: `await build(...)` rejects, the error propagates.
detectExportsFails ==
    /\ pc = "start"
    /\ variant = "current"
    /\ ~WellFormed(source)
    /\ pc' = "failed"
    /\ UNCHANGED <<cfgVars, fileVars, variant, source, exports, rtVars>>

\* part_001: readFileSync + parseExports(source)
scanExports ==
    /\ pc = "start"
    /\ variant = "legacy"
    /\ exports' = parseExports(source)
    /\ pc' = "classified"
    /\ UNCHANGED <<cfgVars, fileVars, variant, source, rtVars>>

\* generateDevEntry(root, workerFile, exports): the text of _dev-entry.ts
EmitDevEntry ==
    /\ pc = "classified"
    /\ target' = "dev"
    /\ served' = generateDevEntry(variant, exports)
    /\ pc' = "emitted"
    /\ UNCHANGED <<cfgVars, fileVars, variant, clsVars, req, ip, nextDefined, nextResponse,
                   response, calls, nextCalls, result>>

\* buildExportBlock(exports): the replacement block of the build
EmitExportBlock ==
    /\ pc = "classified"
    /\ target' = "build"
    /\ served' = buildExportBlock(variant, exports)
    /\ pc' = "emitted"
    /\ UNCHANGED <<cfgVars, fileVars, variant, clsVars, req, ip, nextDefined, nextResponse,
                   response, calls, nextCalls, result>>

NextClassify ==
    \/ detectExports
    \/ detectExportsFails
    \/ scanExports
    \/ EmitDevEntry
    \/ EmitExportBlock

SpecClassify == InitClassify /\ [][NextClassify]_vars

----------------------------------------------------------------------------
(* Specification of the build patcher: buildPlugin.closeBundle.handler run  *)
(* on the files the adapter left.                                           *)

BuildDecls ==
    {<<"const", "fetch">>, <<"const", "scheduled">>, <<"class", "Foo">>,
     <<"const", "helper">>, <<"class", "$$">>, <<"default", "default">>}
MaxBuildDecls == 2

sourceMapComment == code("//# sourceMappingURL=_worker.js.map")

\* Bundle files a build can find at workerDest: what the adapter emits (with
\* variations of layout), and bundles of a shape the patcher does not know.
AdapterOutputs ==
    { AdapterBundle,
      <<adapterCode, NL>> \o defaultExportStmt("worker_default"),
      <<adapterCode, NL, kw("export"), pn("{"), id("worker_default"), SP,
        kw("as"), SP, kw("default"), pn("}"), pn(";")>>,
      <<adapterCode, NL>> \o defaultExportStmt("index_default") \o <<pn(";"), NL>>,
      <<adapterCode, NL>> \o defaultExportStmt("worker_default")
          \o <<pn(";"), NL, sourceMapComment, NL>>,
      <<adapterCode, NL>> \o defaultExportStmt("worker_default") \o <<pn(";"), NL>>
          \o <<adapterCode, NL>> \o defaultExportStmt("worker_default")
          \o <<pn(";"), NL>>,
      <<adapterCode, NL, kw("export"), SP, kw("default"), SP,
        id("worker_default"), pn(";"), NL>>,
      <<>> }

InitBuild ==
    /\ variant \in Variants
    /\ pc = "idle"
    /\ workerExists \in BOOLEAN
    /\ source \in IF workerExists THEN SeqsUpTo(BuildDecls, MaxBuildDecls)
                  ELSE {<<>>}
    /\ exports = NoRecord
    /\ bundle \in AdapterOutputs \cup {NoFile}
    /\ userWorker = NoFile
    /\ workerContent = <<>>
    /\ runlog = <<>>
    /\ RtIdle
    /\ config = NoConfig
    /\ configIn = NoConfig
    /\ returned = NoReturn
    /\ resolved = NoConfig
    /\ devEntryPath = ""
    /\ devEntry = NoFile
    /\ wranglerFile \in WranglerFiles
    /\ workerDest = NoDest

\* The record of one run of the hook (history, for stating properties).
NewRun ==
    [startBundle |-> bundle, startUserWorker |-> userWorker,
     startConfig |-> wranglerFile,
     endBundle |-> bundle, endUserWorker |-> userWorker,
     bundlerCalls |-> 0, writes |-> <<>>, outcome |-> "running"]

CurRun == runlog[Len(runlog)]

\* the current run's record, updated
EndRun(log, out, b, u) ==
    [log EXCEPT ![Len(log)] =
        [@ EXCEPT !.outcome = out, !.endBundle = b, !.endUserWorker = u]]

\* faulty variant: the empty-classification test never fires
IsEmptyRecordNever(exp) == FALSE

\* exports.classes.length === 0 && exports.handlers.length === 0
IsEmptyRecord(exp) == Len(exp.classes) = 0 /\ Len(exp.handlers) = 0

\* closeBundle.handler up to its first suspension on the bundler:
\* the three existence/guard checks (and, in part_001, the pattern scan).
CloseBundleBegin ==
    /\ pc = "idle"
    /\ Len(runlog) < MaxRuns
    /\ LET log == Append(runlog, NewRun) IN
       IF ~workerExists
       THEN /\ runlog' = EndRun(log, "noworker", bundle, userWorker)
            /\ UNCHANGED <<pc, workerContent, exports>>
       ELSE IF bundle = NoFile
       THEN /\ runlog' = EndRun(log, "nodest", bundle, userWorker)
            /\ UNCHANGED <<pc, workerContent, exports>>
       ELSE IF ~exportPatternTest(bundle)
       THEN /\ runlog' = EndRun(log, "guarded", bundle, userWorker)
            /\ workerContent' = bundle
            /\ UNCHANGED <<pc, exports>>
       ELSE IF variant = "legacy"
       THEN /\ workerContent' = bundle
            /\ exports' = parseExports(source)
            /\ IF IsEmptyRecord(exports')
               THEN /\ runlog' = EndRun(log, "empty", bundle, userWorker)
                    /\ pc' = pc
               ELSE /\ runlog' = log
                    /\ pc' = "bundling"
       ELSE /\ workerContent' = bundle
            /\ runlog' = log
            /\ pc' = "bundling"
            /\ UNCHANGED exports
    /\ UNCHANGED <<cfgVars, variant, source, workerExists, bundle, userWorker, rtVars>>

\* `await build({...})` returns.  index.js: write: false, the export table
\* is classified, an empty record ends the run.  part_001: esbuild itself
\* writes outfile = _user-worker.js.
BundleUserWorker ==
    /\ pc = "bundling"
    /\ WellFormed(source)
    /\ LET log == [runlog EXCEPT ![Len(runlog)].bundlerCalls = @ + 1] IN
       IF variant = "current"
       THEN /\ exports' = classifyExports(MetafileExports(source))
            /\ IF IsEmptyRecord(exports')
               THEN /\ runlog' = EndRun(log, "empty", bundle, userWorker)
                    /\ pc' = "idle"
               ELSE /\ runlog' = log
                    /\ pc' = "writeUserWorker"
            /\ UNCHANGED userWorker
       ELSE /\ userWorker' = userWorkerBundle(source)
            /\ runlog' = [log EXCEPT ![Len(log)].writes = Append(@, "_user-worker.js")]
            /\ pc' = "patching"
            /\ UNCHANGED exports
    /\ UNCHANGED <<cfgVars, variant, source, workerExists, bundle, workerContent, rtVars>>

\* faulty variant: a rejected build is taken for an empty classification
BundleFailsSilently ==
    /\ pc = "bundling"
    /\ ~WellFormed(source)
    /\ runlog' = EndRun([runlog EXCEPT ![Len(runlog)].bundlerCalls = @ + 1],
                        "empty", bundle, userWorker)
    /\ pc' = "idle"
    /\ UNCHANGED <<cfgVars, variant, clsVars, workerExists, bundle, userWorker,
                   workerContent, rtVars>>

\* `await build({...})` rejects: the error leaves the hook, nothing written.
BundleFails ==
    /\ pc = "bundling"
    /\ ~WellFormed(source)
    /\ runlog' = EndRun([runlog EXCEPT ![Len(runlog)].bundlerCalls = @ + 1],
                        "failed", bundle, userWorker)
    /\ pc' = "idle"
    /\ UNCHANGED <<cfgVars, variant, clsVars, workerExists, bundle, userWorker,
                   workerContent, rtVars>>

\* faulty variant: the user bundle is not written before the patch
WriteUserWorkerSkipped ==
    /\ pc = "writeUserWorker"
    /\ pc' = "patching"
    /\ UNCHANGED <<cfgVars, fileVars, variant, clsVars, rtVars>>

\* index.js: writeFileSync(userWorkerDest, result.outputFiles[0].text)
WriteUserWorker ==
    /\ pc = "writeUserWorker"
    /\ userWorker' = userWorkerBundle(source)
    /\ runlog' = [runlog EXCEPT ![Len(runlog)].writes = Append(@, "_user-worker.js")]
    /\ pc' = "patching"
    /\ UNCHANGED <<cfgVars, variant, clsVars, workerExists, bundle, workerContent, rtVars>>

\* writeFileSync(workerDest, importLine + workerContent.replace(...))
PatchBundle ==
    /\ pc = "patching"
    /\ bundle' = patchedText(variant, workerContent, exports)
    /\ runlog' = EndRun([runlog EXCEPT ![Len(runlog)].writes = Append(@, "_worker.js")],
                        "patched", bundle', userWorker)
    /\ pc' = "idle"
    /\ UNCHANGED <<cfgVars, variant, clsVars, workerExists, userWorker, workerContent, rtVars>>

\* A new build: the adapter empties its output directory and writes its
\* bundle again.
AdapterWrites(b) ==
    /\ pc = "idle"
    /\ runlog # <<>>
    /\ bundle' = b
    /\ userWorker' = NoFile
    /\ runlog' = <<>>
    /\ UNCHANGED <<cfgVars, variant, pc, clsVars, workerExists, workerContent, rtVars>>

NextBuild ==
    \/ CloseBundleBegin
    \/ BundleUserWorker
    \/ BundleFails
    \/ WriteUserWorker
    \/ PatchBundle
    \/ \E b \in AdapterOutputs : AdapterWrites(b)

SpecBuild == InitBuild /\ [][NextBuild]_vars

----------------------------------------------------------------------------
(* Properties of the build patcher (SpecBuild) *)

\* the adapter's default-export statement is in the text, where the
\* patcher looks for it
hasAdapterExport(text) == \E i \in 1..Len(text) : exportPatternAt(text, i)

RunDone(r) == r.outcome # "running"

\* C6: a second run of the patcher on the output of a first run changes
\* nothing: it finds the guard pattern absent, writes no file, and the
\* bundle (and _user-worker.js) stay as the first run left them.
C6_PatchIdempotent ==
    \A i \in 2..Len(runlog) :
        RunDone(runlog[i]) =>
            /\ runlog[i].writes = <<>>
            /\ runlog[i].endBundle = runlog[i - 1].endBundle
            /\ runlog[i].endUserWorker = runlog[i - 1].endUserWorker
            /\ (runlog[i - 1].outcome = "patched" =>
                   /\ runlog[i].outcome = "guarded"
                   /\ runlog[i].bundlerCalls = 0)
            /\ (i = Len(runlog) /\ pc = "idle" => bundle = runlog[i - 1].endBundle)

C6_Witness ==
    /\ Len(runlog) = 2
    /\ runlog[1].outcome = "patched"
    /\ runlog[1].endBundle # runlog[1].startBundle
    /\ runlog[2].outcome = "guarded"
    /\ bundle = runlog[1].endBundle

\* C7: when the bundle text read by a run does not have the adapter's
\* default-export statement, the run skips: the bundler is not invoked, the
\* bundle is byte-identical and _user-worker.js is not written.
C7_GuardSkipsEntirely ==
    \A i \in 1..Len(runlog) :
        (runlog[i].startBundle # NoFile /\ ~hasAdapterExport(runlog[i].startBundle))
            => /\ RunDone(runlog[i])
               /\ runlog[i].bundlerCalls = 0
               /\ runlog[i].writes = <<>>
               /\ runlog[i].endBundle = runlog[i].startBundle
               /\ runlog[i].endUserWorker = runlog[i].startUserWorker
               /\ (i = Len(runlog) =>
                     bundle = runlog[i].startBundle
                     /\ userWorker = runlog[i].startUserWorker)

C7_Witness ==
    /\ Len(runlog) = 1
    /\ workerExists /\ ~IsEmptyRecord(classify(variant, source))
    /\ runlog[1].outcome = "guarded"
    /\ runlog[1].startBundle =
          <<adapterCode, NL>> \o defaultExportStmt("index_default") \o <<pn(";"), NL>>
    /\ bundle = runlog[1].startBundle /\ userWorker = NoFile

----------------------------------------------------------------------------
(* Properties of classification and synthesis (SpecClassify) *)

\* The recognized handler names of a variant, and the names a module exports.
Recognized(v) ==
    Range(IF v = "current" THEN KNOWN_HANDLERS ELSE KNOWN_HANDLERS_LEGACY)
ExportedNames(src) == {DeclName(src[i]) : i \in 1..Len(src)} \ {"default"}

Classified == pc \in {"classified", "emitted"}

\* C5: for a module exporting the recognized names H and the other names C
\* (default excluded), handlers = H and classes = C as sets, in whatever
\* order the declarations come.
C5_ClassificationPartitions ==
    (Classified /\ WellFormed(source))
        => /\ Range(exports.handlers) = ExportedNames(source) \cap Recognized(variant)
           /\ Range(exports.classes) = ExportedNames(source) \ Recognized(variant)

\* The module a generated text forwards from.
UserModulePath(t) == IF t = "dev" THEN DevImportPath ELSE UserWorkerPath

\* The named exports of a text: <<name, module it is forwarded from>> for
\* every `export { name } from 'module';`
namedExports(text) ==
    {<<text[i + 4][2], text[i + 10][2]>> :
        i \in {j \in 1..(Len(text) - 10) :
                 /\ text[j] = kw("export")
                 /\ text[j + 2] = pn("{")
                 /\ text[j + 4][1] = "id"
                 /\ text[j + 6] = pn("}")
                 /\ text[j + 8] = kw("from")
                 /\ text[j + 10][1] = "str"}}

\* The keys of the object literal after `export default {`: method
\* definitions `async k(...)` and properties `k: value`.
defaultOpenIndex(text) ==
    IF \E i \in 1..(Len(text) - 2) :
           text[i] = kw("export") /\ text[i + 2] = kw("default")
    THEN CHOOSE i \in 1..(Len(text) - 2) :
           text[i] = kw("export") /\ text[i + 2] = kw("default")
    ELSE Len(text) + 1

defaultKeys(text) ==
    {text[i][2] :
        i \in {j \in (defaultOpenIndex(text) + 1)..Len(text) :
                 /\ text[j][1] = "id"
                 /\ tokAt(text, j - 1)[1] = "ws"
                 /\ \/ tokAt(text, j + 1) = pn(":")
                    \/ tokAt(text, j - 2) = kw("async")}}

\* C8 as stated: the dev entry's default export has exactly the classified
\* handlers as keys.
C8_DefaultKeysAreHandlers ==
    (pc = "emitted" /\ target = "dev")
        => defaultKeys(served) = Range(exports.handlers)

\* C8 amended: the dev entry's default export always has a fetch key (the
\* wrapper when fetch is classified, the plain delegation otherwise); the
\* generator of src/lib/index.js gives it exactly the keys handlers + fetch,
\* the older generator gives it fetch alone and forwards the other
\* classified handlers as named re-exports.
C8_DefaultKeysAmended ==
    (pc = "emitted" /\ target = "dev")
        => /\ (includes(exports.handlers, "fetch") <=> refsUserFetch(served))
           /\ (variant = "current" =>
                 defaultKeys(served) = Range(exports.handlers) \cup {"fetch"})
           /\ (variant = "legacy" =>
                 /\ defaultKeys(served) = {"fetch"}
                 /\ \A h \in Range(exports.handlers) \ {"fetch"} :
                       <<h, DevImportPath>> \in namedExports(served))

C8_Witness ==
    /\ pc = "emitted" /\ target = "dev" /\ variant = "current"
    /\ exports.handlers = <<"scheduled", "tailStream">>
    /\ defaultKeys(served) = {"fetch", "scheduled", "tailStream"}

\* C9: the named exports of the synthesized text (dev entry, build
\* replacement block) are exactly the classes, each forwarded from the user
\* module.
C9_OnlyClassesReExported ==
    pc = "emitted"
        => namedExports(served) =
              {<<c, UserModulePath(target)>> : c \in Range(exports.classes)}

\* `h: __userWorker.h` among the entries of the default export
boundDirectly(text, h) ==
    \E i \in (defaultOpenIndex(text) + 1)..Len(text) :
        /\ text[i] = id(h)
        /\ tokAt(text, i + 1) = pn(":")
        /\ tokAt(text, i + 3) = id("__userWorker")
        /\ tokAt(text, i + 4) = pn(".")
        /\ tokAt(text, i + 5) = id(h)
        /\ tokAt(text, i + 6) \in {pn(","), NL}

\* C11: every classified handler other than fetch is a key of the generated
\* default export (dev entry and build block), bound directly to the user
\* module's export of the same name.
C11_OtherHandlersPassThrough ==
    pc = "emitted"
        => \A h \in Range(exports.handlers) \ {"fetch"} : boundDirectly(served, h)

\* C12: every Classification Record has handlers within the recognized
\* names, no name in both handlers and classes, and default in neither.
C12_RecordInvariant ==
    Classified
        => /\ Range(exports.handlers) \subseteq Recognized(variant)
           /\ Range(exports.classes) \cap Range(exports.handlers) = {}
           /\ "default" \notin Range(exports.handlers) \cup Range(exports.classes)

\* C13: the handlers of a Classification Record have no duplicate.
C13_HandlersNoDuplicate ==
    Classified => NoDup(exports.handlers)

----------------------------------------------------------------------------
(* Properties of the build patcher on particular worker modules (SpecBuild) *)

\* A worker module whose only exports are plain bindings with a name
\* outside the recognized handlers, such as `export const helper = ...`.
HelperOnly(src) ==
    /\ src # <<>>
    /\ \A i \in 1..Len(src) : src[i] = <<"const", "helper">>

LastRun == runlog[Len(runlog)]

\* a run that got as far as classifying the worker module, and is over
ClassifyingRunDone ==
    /\ runlog # <<>>
    /\ RunDone(LastRun)
    /\ workerExists
    /\ LastRun.startBundle # NoFile
    /\ hasAdapterExport(LastRun.startBundle)

\* C14 as stated: for a helper-only worker module the classification is
\* empty and the patcher skips without writing a file.
C14_HelperOnlySkips ==
    (ClassifyingRunDone /\ HelperOnly(source) /\ WellFormed(source))
        => /\ exports = [handlers |-> <<>>, classes |-> <<>>]
           /\ LastRun.outcome = "empty"
           /\ LastRun.writes = <<>>

\* C14 amended: for a helper-only worker module, classifyExports of
\* src/lib/index.js yields handlers = [] and classes = [helper] and the
\* patcher patches the bundle, re-exporting helper; the pattern scan of
\* part_001 yields the empty record and the patcher skips without writing.
C14_HelperOnlyAmended ==
    (ClassifyingRunDone /\ HelperOnly(source) /\ WellFormed(source))
        => /\ (variant = "current" =>
                 /\ exports = [handlers |-> <<>>, classes |-> <<"helper">>]
                 /\ LastRun.outcome = "patched"
                 /\ LastRun.writes = <<"_user-worker.js", "_worker.js">>
                 /\ <<"helper", UserWorkerPath>> \in namedExports(LastRun.endBundle))
           /\ (variant = "legacy" =>
                 /\ exports = [handlers |-> <<>>, classes |-> <<>>]
                 /\ LastRun.outcome = "empty"
                 /\ LastRun.writes = <<>>
                 /\ LastRun.endBundle = LastRun.startBundle)

C14_Witness ==
    /\ variant = "current" /\ source = << <<"const", "helper">> >>
    /\ Len(runlog) = 1 /\ runlog[1].outcome = "patched"
    /\ bundle = runlog[1].endBundle
    /\ <<"helper", UserWorkerPath>> \in namedExports(bundle)
    /\ userWorker # NoFile

\* C15: when the classification of an existing worker file has neither
\* handlers nor classes, the run ends without raising, leaves the bundle
\* byte-identical and writes no _user-worker.js.
C15_EmptyClassificationSkips ==
    (ClassifyingRunDone /\ LastRun.outcome # "failed"
     /\ exports.handlers = <<>> /\ exports.classes = <<>>)
        => /\ LastRun.outcome = "empty"
           /\ LastRun.writes = <<>>
           /\ LastRun.endBundle = LastRun.startBundle
           /\ LastRun.endUserWorker = LastRun.startUserWorker
           /\ (pc = "idle" => bundle = LastRun.startBundle
                              /\ userWorker = LastRun.startUserWorker)

C15_Witness ==
    /\ variant = "current" /\ workerExists
    /\ source = << <<"default", "default">> >>
    /\ Len(runlog) = 1 /\ runlog[1].outcome = "empty"
    /\ runlog[1].bundlerCalls = 1
    /\ exports = [handlers |-> <<>>, classes |-> <<>>]
    /\ bundle = runlog[1].startBundle /\ userWorker = NoFile

----------------------------------------------------------------------------
(* Specification of a dev session's configuration phase: the config hook   *)
(* of devSetupPlugin (enforce: 'pre'), then the provider's config hook,     *)
(* which calls the customizer on its resolved configuration.                *)

DevEntryFile == "<root>/.svelte-kit/cloudflare-worker/_dev-entry.ts"

DevSources ==
    { <<>>, << <<"const", "fetch">> >>,
      << <<"const", "fetch">>, <<"const", "fetch">> >> }

InitDev ==
    /\ variant \in Variants
    /\ pc = "devSetup"
    /\ workerExists \in BOOLEAN
    /\ source \in IF workerExists THEN DevSources ELSE {<<>>}
    /\ exports = NoRecord
    /\ RtIdle
    /\ bundle = NoFile
    /\ userWorker = NoFile
    /\ workerContent = <<>>
    /\ runlog = <<>>
    /\ config \in Configs
    /\ configIn = config
    /\ returned = NoReturn
    /\ resolved = NoConfig
    /\ devEntryPath = ""
    /\ devEntry = NoFile
    /\ wranglerFile = NoWranglerFile
    /\ workerDest = NoDest

\* faulty variant: the hook does not wait for the classification
DevSetupConfigNotAwaited ==
    /\ pc = "devSetup"
    /\ variant = "current" => (workerExists => WellFormed(source))
    /\ pc' = "cfConfig"
    /\ UNCHANGED <<cfgVars, fileVars, variant, clsVars, rtVars>>

\* faulty variant: the hook does not test whether the worker file exists
DevSetupConfigNoExistsCheck ==
    /\ pc = "devSetup"
    /\ variant = "current" => (workerExists => WellFormed(source))
    /\ exports' = classify(variant, source)
    /\ devEntry' = generateDevEntry(variant, exports')
    /\ devEntryPath' = DevEntryFile
    /\ pc' = "cfConfig"
    /\ UNCHANGED <<variant, source, rtVars, fileVars, config, configIn, returned,
                   resolved, wranglerFile, workerDest>>

\* devSetupPlugin.config: nothing without a worker file; else classify,
\* write the dev entry and remember its path.
DevSetupConfig ==
    /\ pc = "devSetup"
    /\ variant = "current" => (workerExists => WellFormed(source))
    /\ IF ~workerExists
       THEN UNCHANGED <<exports, devEntry, devEntryPath>>
       ELSE /\ exports' = classify(variant, source)
            /\ devEntry' = generateDevEntry(variant, exports')
            /\ devEntryPath' = DevEntryFile
    /\ pc' = "cfConfig"
    /\ UNCHANGED <<variant, source, rtVars, fileVars, config, configIn, returned,
                   resolved, wranglerFile, workerDest>>

\* index.js: `await detectExports(workerPath)` rejects, the hook throws.
DevSetupFails ==
    /\ pc = "devSetup"
    /\ variant = "current" /\ workerExists /\ ~WellFormed(source)
    /\ pc' = "devFailed"
    /\ UNCHANGED <<cfgVars, fileVars, variant, clsVars, rtVars>>

\* The provider's config hook calls the customizer on its configuration.
ConfigCustomizer ==
    /\ pc = "cfConfig"
    /\ config' = configCustomizer(variant, config, devEntryPath)
    /\ returned' = customizerReturns(config')
    /\ pc' = "customized"
    /\ UNCHANGED <<variant, clsVars, rtVars, fileVars, configIn, resolved,
                   devEntryPath, devEntry, wranglerFile, workerDest>>

\* The provider takes the customizer's result.
ProviderResolves ==
    /\ pc = "customized"
    /\ resolved' = providerResolves(returned, config)
    /\ pc' = "resolved"
    /\ UNCHANGED <<variant, clsVars, rtVars, fileVars, config, configIn, returned,
                   devEntryPath, devEntry, wranglerFile, workerDest>>

NextDev ==
    \/ DevSetupConfig
    \/ DevSetupFails
    \/ ConfigCustomizer
    \/ ProviderResolves

SpecDev == InitDev /\ [][NextDev]_vars

----------------------------------------------------------------------------
(* Properties of the deploy-configuration file across a build (SpecBuild)  *)

\* C16: after the build patcher ran on a project whose deploy-configuration
\* file has durable-object bindings, no binding in the file on disk carries
\* script_name, and the rest of the file is as it was.
C16_ConfigFileScrubbed ==
    (runlog # <<>> /\ RunDone(LastRun) /\ LastRun.outcome = "patched"
     /\ LastRun.startConfig.bindings.defined)
        => /\ wranglerFile.bindings.defined
           /\ Len(wranglerFile.bindings.items) = Len(LastRun.startConfig.bindings.items)
           /\ \A i \in 1..Len(wranglerFile.bindings.items) :
                  /\ wranglerFile.bindings.items[i].script_name = Undefined
                  /\ wranglerFile.bindings.items[i].name
                         = LastRun.startConfig.bindings.items[i].name
                  /\ wranglerFile.bindings.items[i].class_name
                         = LastRun.startConfig.bindings.items[i].class_name
           /\ wranglerFile.comment = LastRun.startConfig.comment
           /\ wranglerFile.name = LastRun.startConfig.name

----------------------------------------------------------------------------
(* Properties of the configuration customizer (SpecDev) *)

CustomizerRan == pc \in {"customized", "resolved"}

\* C17: after the customizer ran, no entry of durable_objects.bindings
\* carries script_name, and the other fields of each entry are unchanged.
C17_NoScriptNameAfterCustomizer ==
    (CustomizerRan /\ configIn.durable_objects.defined)
        => /\ config.durable_objects.defined
           /\ Len(config.durable_objects.items) = Len(configIn.durable_objects.items)
           /\ \A i \in 1..Len(config.durable_objects.items) :
                  /\ config.durable_objects.items[i].script_name = Undefined
                  /\ config.durable_objects.items[i].name
                         = configIn.durable_objects.items[i].name
                  /\ config.durable_objects.items[i].class_name
                         = configIn.durable_objects.items[i].class_name

\* position of the first occurrence of x in s
firstIndex(s, x) == CHOOSE i \in 1..Len(s) : s[i] = x /\ \A j \in 1..(i - 1) : s[j] # x

\* C18: after the customizer ran, every flag of the input list appears
\* exactly once, no other flag appears, and the flags stand in the order of
\* their first occurrences; a configuration without the list stays without.
C18_FlagsDeduplicated ==
    CustomizerRan
        => LET fin == configIn.compatibility_flags
               fout == config.compatibility_flags
           IN /\ fout.defined = fin.defined
              /\ ~fin.defined => fout = fin
              /\ fin.defined =>
                    /\ NoDup(fout.items)
                    /\ Range(fout.items) = Range(fin.items)
                    /\ \A a, b \in Range(fin.items) :
                           firstIndex(fin.items, a) < firstIndex(fin.items, b)
                               => firstIndex(fout.items, a) < firstIndex(fout.items, b)

C18_Witness ==
    /\ pc = "customized"
    /\ configIn.compatibility_flags
           = List(<<"nodejs_compat", "nodejs_als", "nodejs_compat">>)
    /\ config.compatibility_flags = List(<<"nodejs_compat", "nodejs_als">>)

\* C19 as stated: binding and run_worker_first are filled in only where
\* they are unset; a value the user set for either is left unchanged.
C19_FilledOnlyWhereUnset ==
    CustomizerRan
        => LET a == configIn.assets
               b == config.assets
           IN /\ b.defined
              /\ b.binding = IF a.binding \in {Undefined, ""} THEN "ASSETS" ELSE a.binding
              /\ b.run_worker_first
                     = IF a.run_worker_first = Undefined THEN "true"
                       ELSE a.run_worker_first

\* C19 amended: assets.binding is filled in with 'ASSETS' only where it is
\* missing or empty and a value the user set is kept; run_worker_first is
\* true afterwards whatever the user had set.
C19_BindingFilledFlagForced ==
    CustomizerRan
        => LET a == configIn.assets
               b == config.assets
           IN /\ b.defined
              /\ b.binding = IF a.binding \in {Undefined, ""} THEN "ASSETS" ELSE a.binding
              /\ b.run_worker_first = "true"

C19_Witness ==
    /\ pc = "customized"
    /\ configIn.assets = [defined |-> TRUE, binding |-> "MY_ASSETS",
                          run_worker_first |-> "false"]
    /\ config.assets = [defined |-> TRUE, binding |-> "MY_ASSETS",
                        run_worker_first |-> "true"]

\* C20: the customizer returns nothing and changes the provider's object in
\* place; name, migrations and the name and class_name of every binding are
\* as they were, and the provider goes on with that same object, whose
\* migrations have exactly the elements they had.
C20_InPlaceNoReturn ==
    CustomizerRan
        => /\ ~returned.defined
           /\ config.name = configIn.name
           /\ config.migrations = configIn.migrations
           /\ config.durable_objects.defined = configIn.durable_objects.defined
           /\ Len(config.durable_objects.items) = Len(configIn.durable_objects.items)
           /\ \A i \in 1..Len(config.durable_objects.items) :
                  /\ config.durable_objects.items[i].name
                         = configIn.durable_objects.items[i].name
                  /\ config.durable_objects.items[i].class_name
                         = configIn.durable_objects.items[i].class_name
           /\ pc = "resolved" =>
                  /\ resolved = config
                  /\ resolved.migrations = configIn.migrations

C20_Witness ==
    /\ pc = "resolved" /\ workerExists
    /\ configIn.main = "src/index.ts" /\ config.main = DevEntryFile
    /\ configIn.compatibility_flags = List(<<"nodejs_compat", "nodejs_compat">>)
    /\ config.compatibility_flags = List(<<"nodejs_compat">>)
    /\ Len(config.durable_objects.items) = 2
    /\ resolved.migrations = List(Migrations)
    /\ ~returned.defined

----------------------------------------------------------------------------
(* Both hooks of the plugin: a dev session's configuration phase or the    *)
(* closeBundle runs of a build.                                             *)

InitHooks == InitDev \/ InitBuild

NextHooks == NextDev \/ NextBuild

SpecHooks == InitHooks /\ [][NextHooks]_vars

----------------------------------------------------------------------------
(* Properties of the hooks' order and of their failure paths *)

DevSetupOver == pc \in {"cfConfig", "customized", "resolved", "devFailed"}

\* C21: in a dev session with a worker file, when the customizer runs the
\* config hook of devSetupPlugin is over: the module is classified, the dev
\* entry is on disk, and the customizer points config.main at that file.
C21_EntryWrittenBeforeCustomizer ==
    /\ (workerExists /\ pc \in {"cfConfig", "customized", "resolved"})
           => /\ exports # NoRecord
              /\ devEntry # NoFile
              /\ devEntryPath = DevEntryFile
    /\ (workerExists /\ CustomizerRan) => config.main = DevEntryFile

C21_Witness ==
    /\ pc = "customized" /\ workerExists /\ variant = "current"
    /\ source = << <<"const", "fetch">> >>
    /\ exports = [handlers |-> <<"fetch">>, classes |-> <<>>]
    /\ devEntry # NoFile
    /\ configIn.main = "src/index.ts" /\ config.main = DevEntryFile

C23_BundlerFailurePropagates ==
    /\ \A i \in 1..Len(runlog) :
           (RunDone(runlog[i]) /\ runlog[i].bundlerCalls > 0 /\ ~WellFormed(source))
               => /\ runlog[i].outcome = "failed"
                  /\ runlog[i].writes = <<>>
                  /\ runlog[i].endBundle = runlog[i].startBundle
                  /\ runlog[i].endUserWorker = runlog[i].startUserWorker
    /\ (DevSetupOver /\ variant = "current" /\ workerExists /\ ~WellFormed(source))
           => /\ pc = "devFailed"
              /\ exports = NoRecord
              /\ devEntry = NoFile
              /\ devEntryPath = ""
              /\ config = configIn

C23_Witness ==
    /\ variant = "current" /\ workerExists /\ ~WellFormed(source)
    /\ Len(runlog) = 1 /\ runlog[1].outcome = "failed"
    /\ runlog[1].bundlerCalls = 1
    /\ pc = "idle" /\ bundle = runlog[1].startBundle /\ userWorker = NoFile

----------------------------------------------------------------------------
(* Properties of the guard and of the text the patcher writes (SpecBuild)  *)

\* `export { <internal-name> as default }` with its first token at index i,
\* anywhere in the text, for any identifier
defaultExportAt(text, i) ==
    LET j1 == skipWs(text, i + 1)
        j2 == skipWs(text, j1 + 1)
        j3 == skipWs(text, j2 + 1)
        j4 == skipWs(text, j3 + 1)
        j5 == skipWs(text, j4 + 1)
    IN /\ tokAt(text, i) = kw("export")
       /\ tokAt(text, j1) = pn("{")
       /\ tokAt(text, j2)[1] = "id"
       /\ tokAt(text, j3) = kw("as")
       /\ tokAt(text, j4) = kw("default")
       /\ tokAt(text, j5) = pn("}")

containsDefaultExport(text) == \E i \in 1..Len(text) : defaultExportAt(text, i)

\* C24: with a worker file whose classification is not empty, every adapter
\* bundle that contains a statement `export { <internal-name> as default }`,
\* with or without semicolon and for any internal name, is patched.
C24_EveryDefaultExportPatched ==
    (/\ runlog # <<>> /\ RunDone(LastRun)
     /\ workerExists /\ WellFormed(source)
     /\ classify(variant, source) # [handlers |-> <<>>, classes |-> <<>>]
     /\ LastRun.startBundle # NoFile
     /\ containsDefaultExport(LastRun.startBundle))
        => /\ LastRun.outcome = "patched"
           /\ LastRun.endBundle # LastRun.startBundle

----------------------------------------------------------------------------
(* The two classification strategies compared (SpecClassify) *)

\* every export is a direct top-level declaration
DirectDeclarations(src) ==
    \A i \in 1..Len(src) : DeclKind(src[i]) \in {"class", "const", "asyncfunction"}

\* C25: for a well-formed worker module made of direct top-level export
\* declarations, classifying the bundler's export table and scanning the
\* text for export patterns give the same Classification Record.
C25_StrategiesAgree ==
    (Classified /\ WellFormed(source) /\ DirectDeclarations(source))
        => /\ classifyExports(MetafileExports(source)) = parseExports(source)
           /\ exports = parseExports(source)
           /\ exports = classifyExports(MetafileExports(source))

----------------------------------------------------------------------------
(* Resolving the adapter's bundle path: findWorkerDest *)

Root == "<root>"
AbsoluteMain == "/srv/out/_worker.js"

\* path.resolve(root, p): an absolute p stands for itself
pathResolve(root, p) == IF p = AbsoluteMain THEN <<"", p>> ELSE <<root, p>>

\* path.resolve(root, '.svelte-kit/cloudflare/_worker.js')
DefaultDest == pathResolve(Root, ".svelte-kit/cloudflare/_worker.js")

ConfigSyntaxes == {"plain", "lineComments", "inlineComments", "broken", "unreadable"}
ConfigMains == {Undefined, "", "dist/_worker.js", ".svelte-kit/cloudflare/_worker.js",
                AbsoluteMain}

\* The deploy-configuration files findWorkerDest can meet.
DeployFiles ==
    {NoWranglerFile} \cup
    [path : {"wrangler.jsonc", "wrangler.json", "wrangler.toml"},
     syntax : ConfigSyntaxes, main : ConfigMains,
     comment : {"// deploy configuration"}, name : {"my-app"},
     bindings : {UndefinedList}]

\* existsSync(path.resolve(root, configPath))
configExists(file, configPath) == file.path = configPath

\* unstable_readConfig({}, { hideWarnings: true }): wrangler's own parser
\* reads JSON, JSONC and TOML with their comments; it throws on a file it
\* cannot read or parse, and gives an empty configuration without a file.
unstable_readConfig(file) ==
    IF file.path = "none" THEN [threw |-> FALSE, main |-> Undefined]
    ELSE IF file.syntax \in {"broken", "unreadable"}
    THEN [threw |-> TRUE, main |-> Undefined]
    ELSE [threw |-> FALSE, main |-> file.main]

\* index.js findWorkerDest
findWorkerDestCurrent(root, file) ==
    LET cfg == unstable_readConfig(file) IN
    IF ~cfg.threw /\ ~falsy(cfg.main) THEN pathResolve(root, cfg.main)
    ELSE pathResolve(root, ".svelte-kit/cloudflare/_worker.js")

\* part_001: readFileSync, raw.replace(/^\s*\/\/.*$/gm, ''), JSON.parse:
\* only comments on lines of their own are removed before parsing.
jsonParseStripped(file) ==
    IF file.syntax \in {"broken", "unreadable", "inlineComments"}
    THEN [threw |-> TRUE, main |-> Undefined]
    ELSE [threw |-> FALSE, main |-> file.main]

configPaths == <<"wrangler.jsonc", "wrangler.json", "wrangler.toml">>

RECURSIVE findWorkerDestLoop(_, _, _)
\* part_001 findWorkerDest: the loop over configPaths from index i
findWorkerDestLoop(root, file, i) ==
    IF i > Len(configPaths)
    THEN pathResolve(root, ".svelte-kit/cloudflare/_worker.js")
    ELSE IF ~configExists(file, configPaths[i])
    THEN findWorkerDestLoop(root, file, i + 1)
    ELSE IF configPaths[i] = "wrangler.toml"
    THEN pathResolve(root, ".svelte-kit/cloudflare/_worker.js")
    ELSE LET cfg == jsonParseStripped(file) IN
         IF ~cfg.threw /\ ~falsy(cfg.main) THEN pathResolve(root, cfg.main)
         ELSE findWorkerDestLoop(root, file, i + 1)

findWorkerDestLegacy(root, file) == findWorkerDestLoop(root, file, 1)

findWorkerDest(v, root, file) ==
    IF v = "current" THEN findWorkerDestCurrent(root, file)
    ELSE findWorkerDestLegacy(root, file)

InitResolve ==
    /\ variant \in Variants
    /\ pc = "resolveDest"
    /\ source = <<>>
    /\ exports = NoRecord
    /\ RtIdle
    /\ FilesIdle
    /\ config = NoConfig
    /\ configIn = NoConfig
    /\ returned = NoReturn
    /\ resolved = NoConfig
    /\ devEntryPath = ""
    /\ devEntry = NoFile
    /\ wranglerFile \in DeployFiles
    /\ workerDest = NoDest

\* const workerDest = findWorkerDest(root)
FindWorkerDest ==
    /\ pc = "resolveDest"
    /\ workerDest' = findWorkerDest(variant, Root, wranglerFile)
    /\ pc' = "destResolved"
    /\ UNCHANGED <<variant, clsVars, rtVars, fileVars, config, configIn, returned,
                   resolved, devEntryPath, devEntry, wranglerFile>>

NextResolve == FindWorkerDest

SpecResolve == InitResolve /\ [][NextResolve]_vars

\* the file is there, can be read, is valid in its format and has a main
DeclaresMain(file) ==
    /\ file.path # "none"
    /\ file.syntax \in {"plain", "lineComments", "inlineComments"}
    /\ file.main \notin {Undefined, ""}

\* C26: resolving the bundle path ends with a path, never with an error: the
\* configuration's main resolved against the root when the file (JSON with
\* comments, or TOML) is readable and declares main, else the default path.
C26_DestResolved ==
    pc = "destResolved"
        => /\ workerDest # NoDest
           /\ workerDest = IF DeclaresMain(wranglerFile)
                           THEN pathResolve(Root, wranglerFile.main)
                           ELSE DefaultDest

\* C27: a patching run writes back the import line, then the original text
\* up to the matched default-export statement, then exactly the text of the
\* synthesized export block, whatever characters its identifiers contain.
C27_PatchedTextSpliced ==
    \A i \in 1..Len(runlog) :
        runlog[i].outcome = "patched"
            => LET old == runlog[i].startBundle
                   at == exportPatternIndex(old)
               IN /\ at > 0
                  /\ runlog[i].endBundle
                         = importLine \o SubSeq(old, 1, at - 1)
                               \o buildExportBlock(variant, exports)

----------------------------------------------------------------------------
(* The dev entry and the build block compared (SpecFetch) *)

\* a request's invocations with the two fallback targets identified
tags(cs) ==
    [i \in 1..Len(cs) |-> IF cs[i][1] = "__userWorker.fetch" THEN "user" ELSE "fallback"]

\* a statement with its fallback target identified
abstractStmt(t) ==
    LET m == Meaning(t) IN [op |-> m.op, withNext |-> m.withNext, fallback |-> m.fb # ""]

\* the fetch method of a module as a sequence of such statements
abstractBody(text) ==
    LET b == fetchBody(text) IN [i \in 1..Len(b) |-> abstractStmt(b[i])]

\* What a request does, told without naming the target: the invocations in
\* order and the response returned, from whether fetch is classified, how
\* often the handler called next() and what it resolved to.
expectedTags(hasFetch, n, resp, threw) ==
    IF ~hasFetch THEN <<"fallback">>
    ELSE <<"user">> \o [i \in 1..n |-> "fallback"]
             \o (IF ~threw /\ resp = Void /\ n = 0 THEN <<"fallback">> ELSE <<>>)

expectedResult(hasFetch, n, resp, threw) ==
    IF ~hasFetch THEN FallbackResponse(1)
    ELSE IF threw THEN Thrown
    ELSE IF resp # Void THEN resp
    ELSE IF n > 0 THEN FallbackResponse(n)
    ELSE FallbackResponse(1)

\* C28: for every classification record and every behaviour of the user's
\* handler, the dev entry's and the build block's default export do the
\* same: each request's invocations (in order) and returned response are one
\* function of the record and the handler's behaviour for both targets, the
\* two fetch methods are the same statements up to the fallback target, and
\* (for the entry and block of src/lib/index.js) the keys are the same set.
C28_DevAndBuildAgree ==
    pc # "start"
        => /\ abstractBody(generateDevEntry(variant, exports))
                  = abstractBody(buildExportBlock(variant, exports))
           /\ abstractBody(served) = abstractBody(generateDevEntry(variant, exports))
           /\ variant = "current"
                  => defaultKeys(generateDevEntry(variant, exports))
                         = defaultKeys(buildExportBlock(variant, exports))
           /\ pc = "done" =>
                  /\ tags(calls) = expectedTags(includes(exports.handlers, "fetch"),
                                                nextCalls, response, result = Thrown)
                  /\ result = expectedResult(includes(exports.handlers, "fetch"),
                                             nextCalls, response, result = Thrown)
                  /\ \A i \in 1..Len(calls) :
                         calls[i][1] # "__userWorker.fetch"
                             => calls[i][1] = FallbackOf(target)

C28_Witness ==
    /\ pc = "done" /\ variant = "current" /\ target = "build"
    /\ exports.handlers = <<"fetch", "scheduled">>
    /\ response = Void /\ nextCalls = 2
    /\ tags(calls) = <<"user", "fallback", "fallback">>
    /\ result = FallbackResponse(2)
    /\ defaultKeys(generateDevEntry(variant, exports)) = {"fetch", "scheduled"}

----------------------------------------------------------------------------
(* Builds in which a run of closeBundle can be cut short: the process is   *)
(* ended while the handler is suspended on the bundler or between two of    *)
(* its writes.                                                              *)

InitAbort == InitBuild /\ ~wranglerFile.bindings.defined

\* The run ends where it stands; what is on disk stays.
AbortRun ==
    /\ pc \in {"bundling", "writeUserWorker", "patching"}
    /\ runlog' = EndRun(runlog, "aborted", bundle, userWorker)
    /\ pc' = "idle"
    /\ UNCHANGED <<cfgVars, variant, clsVars, workerExists, bundle, userWorker,
                   workerContent, rtVars>>

NextAbort == NextBuild \/ AbortRun

SpecAbort == InitAbort /\ [][NextAbort]_vars

\* the text has the import of './_user-worker.js'
importsUserWorker(text) ==
    LET line == importLineOf(UserWorkerPath) IN
    \E i \in 1..Len(text) :
        /\ i + Len(line) - 1 <= Len(text)
        /\ SubSeq(text, i, i + Len(line) - 1) = line

\* C29: in every state during or after a run of the patcher, aborted runs
\* included, a bundle that imports './_user-worker.js' has _user-worker.js
\* beside it, and a run that writes the bundle has written _user-worker.js
\* before.
C29_UserWorkerBeforePatch ==
    /\ (bundle # NoFile /\ importsUserWorker(bundle)) => userWorker # NoFile
    /\ \A i \in 1..Len(runlog) :
           \A k \in 1..Len(runlog[i].writes) :
               runlog[i].writes[k] = "_worker.js"
                   => \E j \in 1..(k - 1) : runlog[i].writes[j] = "_user-worker.js"

C29_Witness ==
    /\ Len(runlog) = 2 /\ pc = "idle"
    /\ runlog[1].outcome = "aborted" /\ runlog[1].writes = <<"_user-worker.js">>
    /\ ~importsUserWorker(runlog[1].endBundle)
    /\ runlog[2].outcome = "patched"
    /\ importsUserWorker(bundle) /\ userWorker # NoFile

----------------------------------------------------------------------------
(* A plugin instance whose configuration is resolved again: the closure     *)
(* variable devEntryPath and the files on disk outlive a resolution, the    *)
(* provider starts from the user's configuration each time.                 *)

InitRedev ==
    /\ InitDev
    /\ ~config.compatibility_flags.defined
    /\ ~config.durable_objects.defined

\* The host resolves the configuration once more; the worker file may have
\* been added, changed or removed in the meantime.
NewResolution ==
    /\ pc \in {"resolved", "devFailed"}
    /\ workerExists' \in BOOLEAN
    /\ source' \in IF workerExists' THEN DevSources ELSE {<<>>}
    /\ exports' = NoRecord
    /\ config' = configIn
    /\ returned' = NoReturn
    /\ resolved' = NoConfig
    /\ pc' = "devSetup"
    /\ UNCHANGED <<variant, rtVars, bundle, userWorker, workerContent, runlog,
                   configIn, devEntryPath, devEntry, wranglerFile, workerDest>>

NextRedev == NextDev \/ NewResolution

SpecRedev == InitRedev /\ [][NextRedev]_vars

\* C30: whatever resolutions went before on the plugin instance, when the
\* worker file does not exist at the latest run of the dev config hook the
\* customizer leaves config.main as the user configured it.
C30_MainFollowsLatestResolution ==
    (CustomizerRan /\ ~workerExists) => config.main = configIn.main

====
